---- MODULE Spec2Model ----
(***************************************************************************)
(* Batch generator of train.py: _load_data, _generate,                     *)
(* _generate_shuffled_indices, _generate_batch, _generate_instance,        *)
(* _load_image and _to_categorical, with the joblib thread pool that runs  *)
(* one _generate_instance job per index of a batch.                        *)
(*                                                                         *)
(* Dataset indices are 0-based as in the source; TLA+ sequences are        *)
(* 1-based, so X[index] of the source is y[index + 1] here.  An image is   *)
(* identified by the index of the file it was decoded from.  A float in    *)
(* [0,1] is the integer numerator of a fraction with denominator RScale.   *)
(***************************************************************************)
EXTENDS Integers, Sequences, FiniteSets, TLC

\* ------------------------------------------------------------ bounds
MaxN == 2          \* files found in the scanned split
MaxClasses == 2    \* class sub-directories of train/
MaxBatch == 2      \* batch_size
MaxCalls == 2      \* next() calls the consumer makes

\* ------------------------------------------------------------ constants
RScale == 4                    \* denominator of the fixed-point floats: 1.0 is RScale
RValues == (RScale \div 2)..RScale   \* np.random.uniform(0.5, 1.0); rounding can return 1.0
Stray == -1                    \* a file whose parent directory is no class directory
None == -1
NoError == [index |-> None, done |-> 0]

VARIABLES
    dirs,           \* number of class directories of train/ (class_names)
    files,          \* parent directory of each file of the split, in glob order
    y,              \* labels handed to _generate
    num_classes,
    batch_size, shuffle, data_augmentation,
    gen,            \* position of the program / of the generator frame
    caller,         \* what the consumer of next() observes
    calls,          \* next() calls made so far
    all_indices,    \* _generate_shuffled_indices: the array shuffled in place
    pos,            \* cursor of "yield from all_indices"
    stream,         \* position inside _generate_shuffled_indices
    i,              \* next value of range(0, len(X), batch_size)
    batch_indices,
    jobs,           \* one record per job handed to parallel(jobs)
    finished,       \* job positions in the order the workers completed
    X_batch, y_batch,
    error,          \* the exception that ended the generator, once one has
    block,          \* history: stream draws since the last multiple of N draws
    draws,          \* history: number of indices the stream has yielded
    drawn,          \* history: the stream's yields since the latest next() call
    seqlog          \* history: every index handed to a sequential batch, in order

vars == <<dirs, files, y, num_classes, batch_size, shuffle, data_augmentation,
          gen, caller, calls, all_indices, pos, stream, i, batch_indices,
          jobs, finished, X_batch, y_batch, error, block, draws, drawn, seqlog>>

config == <<dirs, files, y, num_classes, batch_size, shuffle, data_augmentation>>
streamVars == <<all_indices, pos, stream, block, draws, drawn>>
workVars == <<jobs, finished>>
outVars == <<X_batch, y_batch, error>>

\* ------------------------------------------------------------ helpers
Min(a, b) == IF a < b THEN a ELSE b

SeqsUpTo(S, n) == UNION {[1..k -> S] : k \in 0..n}

N == Len(y)

\* np.arange(data_count)
Arange(n) == [k \in 1..n |-> k - 1]

\* the outcomes of np.random.shuffle on an array holding 0..n-1
Shuffles(n) == {p \in [1..n -> 0..(n - 1)] : \A a, b \in 1..n : p[a] = p[b] => a = b}

\* range(a, b) as a list
Range(a, b) == [k \in 1..(IF b > a THEN b - a ELSE 0) |-> a + k - 1]

\* _to_categorical: 1.0 at index, 0.0 elsewhere
ToCategorical(index, nc) == [k \in 0..(nc - 1) |-> IF k = index THEN RScale ELSE 0]

\* c_i * r + c_t * (1 - r)
MixLabel(c_i, c_t, r) ==
    [k \in DOMAIN c_i |-> (c_i[k] * r + c_t[k] * (RScale - r)) \div RScale]

\* X_i * r + X_t * (1 - r): the pixel blend, named by its two sources and the ratio
MixImage(X_i, X_t, r) == [src |-> X_i, partner |-> X_t, r |-> r]

PlainImage(X_i) == [src |-> X_i, partner |-> None, r |-> RScale]

PendingJob(index) ==
    [pc |-> "pending", index |-> index, t |-> None, X |-> PlainImage(index),
     c |-> <<>>]

\* ------------------------------------------------------------ initial state
Init ==
    /\ dirs \in 0..MaxClasses
    /\ files \in SeqsUpTo((0..(dirs - 1)) \cup {Stray}, MaxN)
    /\ y = <<>>
    /\ num_classes = 0
    /\ batch_size = 1
    /\ shuffle = FALSE
    /\ data_augmentation = FALSE
    /\ gen = "unloaded"
    /\ caller = "idle"
    /\ calls = 0
    /\ all_indices = <<>>
    /\ pos = 0
    /\ stream = "unstarted"
    /\ i = 0
    /\ batch_indices = <<>>
    /\ jobs = <<>>
    /\ finished = <<>>
    /\ X_batch = <<>>
    /\ y_batch = <<>>
    /\ error = NoError
    /\ block = <<>>
    /\ draws = 0
    /\ drawn = <<>>
    /\ seqlog = <<>>

\* ------------------------------------------------------------ _load_data
\* class_name_to_id[x.parent.name] raises KeyError for a file outside every
\* class directory; nothing else is checked.
LoadData ==
    /\ gen = "unloaded"
    /\ IF \E k \in 1..Len(files) : files[k] = Stray
       THEN /\ gen' = "load_error"
            /\ UNCHANGED <<y, num_classes>>
       ELSE /\ gen' = "loaded"
            /\ y' = files
            /\ num_classes' = dirs
    /\ UNCHANGED <<dirs, files, batch_size, shuffle, data_augmentation, caller,
                   calls, all_indices, pos, stream, i, batch_indices, jobs,
                   finished, X_batch, y_batch, error, block, draws, drawn, seqlog>>

\* ------------------------------------------------------------ _generate
\* Calling the generator function only creates the generator object.
Generate ==
    /\ gen = "loaded"
    /\ \E b \in 1..MaxBatch, sh \in BOOLEAN, aug \in BOOLEAN :
        /\ batch_size' = b
        /\ shuffle' = sh
        /\ data_augmentation' = aug
    /\ gen' = "created"
    /\ UNCHANGED <<dirs, files, y, num_classes, caller, calls, all_indices, pos,
                   stream, i, batch_indices, jobs, finished, X_batch, y_batch,
                   error, block, draws, drawn, seqlog>>

\* The consumer calls next(): the frame runs from its start (first call) or
\* resumes after the yield.  In shuffled mode line 244 / 249 empties
\* batch_indices; the first call also starts the index stream (line 259).
CallNext ==
    /\ calls < MaxCalls
    /\ caller \in {"idle", "got_batch"}
    /\ gen \in {"created", "yielded"}
    /\ calls' = calls + 1
    /\ caller' = "waiting"
    /\ gen' = "filling"
    /\ batch_indices' = IF shuffle THEN <<>> ELSE batch_indices
    /\ IF gen = "created" /\ shuffle
       THEN /\ all_indices' = Arange(N)
            /\ stream' = "shuffle"
            /\ pos' = 0
       ELSE UNCHANGED <<all_indices, stream, pos>>
    /\ jobs' = <<>>
    /\ finished' = <<>>
    /\ X_batch' = <<>>
    /\ y_batch' = <<>>
    /\ drawn' = <<>>
    /\ UNCHANGED <<config, i, error, block, draws, seqlog>>

\* next() on a generator whose frame has ended raises StopIteration.
CallNextClosed ==
    /\ calls < MaxCalls
    /\ caller \in {"got_error", "got_stop"}
    /\ gen = "closed"
    /\ calls' = calls + 1
    /\ caller' = "got_stop"
    /\ UNCHANGED <<config, gen, streamVars, i, batch_indices, workVars, outVars, seqlog>>

\* _generate_batch line 267: one delayed _generate_instance per index.
Dispatched(indices) == [j \in 1..Len(indices) |-> PendingJob(indices[j])]

\* mutant: the batch is handed over one index early
BatchFullEarly(indices) == Len(indices) >= batch_size - 1

\* line 247
BatchFull(indices) == Len(indices) = batch_size

\* ------------------------------------------------------------ _generate_shuffled_indices
\* mutant: the body runs once and the generator function returns
WhileOnce == "returned"

\* "while True": where control goes once "yield from" is exhausted
WhileTrue == "shuffle"

\* mutant: the array is reshuffled before its last element was handed out
ExhaustedEarly == pos >= Len(all_indices) - 1

\* "yield from all_indices" has handed out every element
Exhausted == pos >= Len(all_indices)

\* line 261: np.random.shuffle(all_indices), then "yield from" starts at 0
StreamShuffle ==
    /\ gen = "filling"
    /\ shuffle
    /\ stream = "shuffle"
    /\ all_indices' \in Shuffles(Len(all_indices))
    /\ pos' = 0
    /\ stream' = "yield"
    /\ UNCHANGED <<config, gen, caller, calls, i, batch_indices, workVars, outVars,
                   block, draws, drawn, seqlog>>

\* line 262 exhausted: back to the head of the loop
StreamLoop ==
    /\ gen = "filling"
    /\ shuffle
    /\ stream = "yield"
    /\ Exhausted
    /\ stream' = WhileTrue
    /\ UNCHANGED <<config, gen, caller, calls, all_indices, pos, i, batch_indices,
                   workVars, outVars, block, draws, drawn, seqlog>>

\* mutant: an index the batch already holds is not added again
AppendedOnce(indices, index) ==
    IF \E k \in 1..Len(indices) : indices[k] = index
    THEN indices
    ELSE Append(indices, index)

\* line 246: batch_indices.append(index)
Appended(indices, index) == Append(indices, index)

\* line 262 yields one index; lines 246-248 append it and, when the batch is
\* full, call _generate_batch.
StreamYield ==
    /\ gen = "filling"
    /\ shuffle
    /\ stream = "yield"
    /\ ~Exhausted
    /\ LET index == all_indices[pos + 1]
           b == Appended(batch_indices, index)
       IN /\ pos' = pos + 1
          /\ draws' = draws + 1
          /\ drawn' = Append(drawn, index)
          /\ block' = IF Len(block) >= N THEN <<index>> ELSE Append(block, index)
          /\ batch_indices' = b
          /\ IF BatchFull(b)
             THEN /\ gen' = "dispatched"
                  /\ jobs' = Dispatched(b)
             ELSE UNCHANGED <<gen, jobs>>
    /\ UNCHANGED <<config, caller, calls, all_indices, stream, i, finished, outVars,
                   seqlog>>

\* ------------------------------------------------------------ sequential scan
\* mutant: the range is not clipped at len(X)
SeqRangeUnclipped(start) == Range(start, start + batch_size)

\* line 253: range(i, min(i + batch_size, len(X)))
SeqRange(start) == Range(start, Min(start + batch_size, N))

\* lines 252-254: the next i of range(0, len(X), batch_size)
SeqBatch ==
    /\ gen = "filling"
    /\ ~shuffle
    /\ i < N
    /\ LET b == SeqRange(i)
       IN /\ batch_indices' = b
          /\ jobs' = Dispatched(b)
          /\ seqlog' = seqlog \o b
    /\ i' = i + batch_size
    /\ gen' = "dispatched"
    /\ UNCHANGED <<config, caller, calls, streamVars, finished, outVars>>

\* line 251: the range is exhausted, "while True" starts a new one
SeqWrap ==
    /\ gen = "filling"
    /\ ~shuffle
    /\ i >= N
    /\ i' = 0
    /\ UNCHANGED <<config, gen, caller, calls, streamVars, batch_indices, workVars,
                   outVars, seqlog>>

\* ------------------------------------------------------------ _generate_instance
\* _load_image: the decoded image, or an exception (OSError, decode error)
LoadOutcomes == {"ok", "error"}

\* lines 276-278, and 293-294 when data_augmentation is off
InstanceStart(job, loaded) ==
    IF loaded = "error"
    THEN [job EXCEPT !.pc = "failed"]
    ELSE LET c_i == ToCategorical(y[job.index + 1], num_classes)
         IN IF data_augmentation
            THEN [job EXCEPT !.pc = "between", !.c = c_i]
            ELSE [job EXCEPT !.pc = "done", !.c = c_i, !.X = PlainImage(job.index)]

\* mutant: the first draw is taken whatever its class
AcceptedAny(y_t, y_i) == TRUE

\* line 284: the partner is accepted
Accepted(y_t, y_i) == y_t # y_i

\* one turn of the loop of lines 282-285 with the draw t, and lines 286-294
\* once the draw is accepted
InstanceDraw(job, t, loaded, r) ==
    IF ~Accepted(y[t + 1], y[job.index + 1])
    THEN job
    ELSE IF loaded = "error"
    THEN [job EXCEPT !.t = t, !.pc = "failed"]
    ELSE [job EXCEPT !.t = t, !.pc = "done",
                     !.X = MixImage(job.index, t, r),
                     !.c = MixLabel(job.c, ToCategorical(y[t + 1], num_classes), r)]

\* the partner image is loaded (line 287) only once a draw was accepted, and
\* the ratio is drawn (line 289) only once that image was loaded
PartnerLoads(job, t) ==
    IF Accepted(y[t + 1], y[job.index + 1]) THEN LoadOutcomes ELSE {"ok"}

Ratios(loaded) == IF loaded = "ok" THEN RValues ELSE {RScale}

Settled(job) == job.pc \in {"done", "failed"}

WorkerStart(j) ==
    /\ gen = "dispatched"
    /\ j \in DOMAIN jobs
    /\ jobs[j].pc = "pending"
    /\ \E loaded \in LoadOutcomes :
        LET job == InstanceStart(jobs[j], loaded)
        IN /\ jobs' = [jobs EXCEPT ![j] = job]
           /\ finished' = IF Settled(job) THEN Append(finished, j) ELSE finished
    /\ UNCHANGED <<config, gen, caller, calls, streamVars, i, batch_indices, outVars,
                   seqlog>>

WorkerDraw(j) ==
    /\ gen = "dispatched"
    /\ j \in DOMAIN jobs
    /\ jobs[j].pc = "between"
    /\ \E t \in 0..(N - 1) :
       \E loaded \in PartnerLoads(jobs[j], t) :
       \E r \in Ratios(loaded) :
        LET job == InstanceDraw(jobs[j], t, loaded, r)
        IN /\ jobs' = [jobs EXCEPT ![j] = job]
           /\ finished' = IF Settled(job) THEN Append(finished, j) ELSE finished
    /\ UNCHANGED <<config, gen, caller, calls, streamVars, i, batch_indices, outVars,
                   seqlog>>

\* ------------------------------------------------------------ _generate_batch
\* mutant: parallel(jobs) returns as soon as no job has raised so far
NoneFailed == \A j \in DOMAIN jobs : jobs[j].pc # "failed"

\* mutant: a job that raised counts as finished and its exception is dropped
AllSettled == \A j \in DOMAIN jobs : Settled(jobs[j])

\* parallel(jobs) returns once every job has returned
AllDone == \A j \in DOMAIN jobs : jobs[j].pc = "done"

\* mutant: the results are collected as the workers complete
ResultsByCompletion == [k \in 1..Len(finished) |-> jobs[finished[k]]]

\* parallel(jobs): the list of results, in the order of the jobs
ParallelResults == [j \in DOMAIN jobs |-> jobs[j]]

\* lines 268-270 and the yield of line 248 / 254
Join ==
    /\ gen = "dispatched"
    /\ AllDone
    /\ LET results == ParallelResults
       IN /\ X_batch' = [k \in DOMAIN results |-> results[k].X]
          /\ y_batch' = [k \in DOMAIN results |-> results[k].c]
    /\ gen' = "yielded"
    /\ caller' = "got_batch"
    /\ UNCHANGED <<config, calls, streamVars, i, batch_indices, workVars, error,
                   seqlog>>

\* the number of jobs that have returned a result
DoneCount == Cardinality({j \in DOMAIN jobs : jobs[j].pc = "done"})

\* The frame of _generate ends: parallel(jobs) re-raises the exception of one
\* of its jobs (line 268), which unwinds _generate_batch with its jobs and their
\* results, or the for loop of line 245 finds its iterator ended.
GeneratorExit ==
    /\ IF gen = "dispatched"
       THEN \E j \in DOMAIN jobs :
                /\ jobs[j].pc = "failed"
                /\ error' = [index |-> jobs[j].index, done |-> DoneCount]
                /\ caller' = "got_error"
       ELSE /\ gen = "filling" /\ shuffle /\ stream = "returned"
            /\ caller' = "got_stop"
            /\ UNCHANGED error
    /\ gen' = "closed"
    /\ jobs' = <<>>
    /\ finished' = <<>>
    /\ UNCHANGED <<config, calls, streamVars, i, batch_indices, X_batch, y_batch,
                   seqlog>>

\* ------------------------------------------------------------ specification
Next ==
    \/ LoadData
    \/ Generate
    \/ CallNext
    \/ CallNextClosed
    \/ StreamShuffle
    \/ StreamLoop
    \/ StreamYield
    \/ SeqBatch
    \/ SeqWrap
    \/ \E j \in 1..MaxBatch : WorkerStart(j)
    \/ \E j \in 1..MaxBatch : WorkerDraw(j)
    \/ Join
    \/ GeneratorExit

Spec == Init /\ [][Next]_vars

\* Threads of the pool are scheduled, the frame of the generator runs while
\* the consumer is blocked in next(), and a uniform draw that can be accepted
\* is eventually accepted.  The consumer is free to stop calling next().
FairSpec ==
    /\ Spec
    /\ WF_vars(StreamShuffle)
    /\ WF_vars(StreamLoop)
    /\ WF_vars(StreamYield)
    /\ WF_vars(SeqBatch)
    /\ WF_vars(SeqWrap)
    /\ \A j \in 1..MaxBatch : WF_vars(WorkerStart(j)) /\ WF_vars(WorkerDraw(j))
    /\ WF_vars(Join)
    /\ WF_vars(GeneratorExit)

\* The index stream on its own: a shuffled generator without augmentation has
\* just been created over a one-class dataset of 0..MaxN samples.  The frame of
\* the generator runs while the consumer is blocked in next().
StreamInit ==
    /\ dirs = 1
    /\ files \in SeqsUpTo({0}, MaxN)
    /\ y = files
    /\ num_classes = dirs
    /\ batch_size \in 1..MaxBatch
    /\ shuffle = TRUE
    /\ data_augmentation = FALSE
    /\ gen = "created"
    /\ caller = "idle"
    /\ calls = 0
    /\ all_indices = <<>>
    /\ pos = 0
    /\ stream = "unstarted"
    /\ i = 0
    /\ batch_indices = <<>>
    /\ jobs = <<>>
    /\ finished = <<>>
    /\ X_batch = <<>>
    /\ y_batch = <<>>
    /\ error = NoError
    /\ block = <<>>
    /\ draws = 0
    /\ drawn = <<>>
    /\ seqlog = <<>>

StreamNext ==
    \/ CallNext
    \/ CallNextClosed
    \/ StreamShuffle
    \/ StreamLoop
    \/ StreamYield
    \/ \E j \in 1..MaxBatch : WorkerStart(j)
    \/ Join
    \/ GeneratorExit

StreamSpec ==
    /\ StreamInit
    /\ [][StreamNext]_vars
    /\ WF_vars(StreamShuffle)
    /\ WF_vars(StreamLoop)
    /\ WF_vars(StreamYield)

\* ------------------------------------------------------------ claims
Returned == caller = "got_batch"

SomeFailed == \E j \in DOMAIN jobs : jobs[j].pc = "failed"

RECURSIVE SumTo(_, _)
SumTo(row, k) == IF k < 0 THEN 0 ELSE row[k] + SumTo(row, k - 1)

\* C1: position j of the returned image stack and label stack holds the result
\* computed for index batch_indices[j], whatever order the workers finished in.
C1_RequestOrder ==
    Returned =>
        /\ Len(X_batch) = Len(batch_indices)
        /\ Len(y_batch) = Len(batch_indices)
        /\ \A j \in 1..Len(batch_indices) :
            /\ jobs[j].index = batch_indices[j]
            /\ X_batch[j].src = batch_indices[j]
            /\ X_batch[j] = jobs[j].X
            /\ y_batch[j] = jobs[j].c

C1_Witness ==
    /\ Returned
    /\ Len(batch_indices) = 2
    /\ batch_indices[1] # batch_indices[2]
    /\ finished = <<2, 1>>

\* C2: the caller is blocked from dispatch until every worker of the batch has
\* completed; a batch is stacked and returned only when all its workers are done.
C2_JoinAll ==
    /\ gen = "dispatched" => caller = "waiting" /\ X_batch = <<>> /\ y_batch = <<>>
    /\ (Returned \/ X_batch # <<>> \/ y_batch # <<>>) =>
        /\ gen = "yielded"
        /\ Len(jobs) = Len(batch_indices)
        /\ Len(finished) = Len(jobs)
        /\ \A j \in DOMAIN jobs : jobs[j].pc = "done"

C2_Witness ==
    /\ Returned
    /\ Len(jobs) = 2
    /\ data_augmentation

\* C3: while a worker of the batch has failed the caller stays blocked with no
\* batch in hand, and the only way on is the exception reaching the caller: the
\* failed job is not run again, the batch is not returned without it, and once
\* the exception was raised the generator returns no batch any more.
C3_FailFast ==
    /\ [](SomeFailed =>
            /\ caller = "waiting"
            /\ gen = "dispatched"
            /\ X_batch = <<>>
            /\ y_batch = <<>>)
    /\ []((caller = "got_error" \/ error # NoError) =>
            /\ gen = "closed"
            /\ caller \in {"got_error", "got_stop"}
            /\ error # NoError
            /\ X_batch = <<>>
            /\ y_batch = <<>>)
    /\ [][SomeFailed =>
            \/ /\ SomeFailed'
               /\ \A j \in DOMAIN jobs : jobs[j].pc = "failed" => jobs'[j] = jobs[j]
            \/ /\ caller' = "got_error"
               /\ \E j \in DOMAIN jobs : jobs[j].pc = "failed"
                                         /\ error'.index = jobs[j].index]_vars

C3_Witness ==
    /\ caller = "got_error"
    /\ error.done >= 1
    /\ data_augmentation

\* C4 as claimed: every returned batch has exactly batch_size rows in both stacks.
C4_Original ==
    Returned => Len(X_batch) = batch_size /\ Len(y_batch) = batch_size

\* C4 amended: a shuffled batch has exactly batch_size rows in both stacks; a
\* sequential batch starting at index s has min(batch_size, N - s) rows, which is
\* fewer than batch_size for the last batch of a pass when batch_size does not
\* divide N.
C4_Rows ==
    Returned =>
        /\ Len(X_batch) = Len(y_batch)
        /\ Len(X_batch) >= 1
        /\ shuffle => Len(X_batch) = batch_size
        /\ ~shuffle =>
            Len(X_batch) = IF batch_indices[1] + batch_size <= N
                           THEN batch_size
                           ELSE N - batch_indices[1]

C4_Witness ==
    /\ Returned
    /\ ~shuffle
    /\ Len(X_batch) < batch_size
    /\ Len(X_batch) = N - batch_indices[1]

\* C5: every block of N consecutive draws of the shuffled stream holds each
\* index of [0,N) exactly once, and the draws of the current block are exactly
\* the elements the current permutation has handed out: the permutation is
\* renewed when, and only when, all of it has been drawn.
C5_Permutation ==
    (shuffle /\ stream # "unstarted") =>
        /\ Len(all_indices) = N
        /\ \A a \in 1..N : \E b \in 1..N : all_indices[b] = a - 1
        /\ Len(block) <= N
        /\ \A a \in 1..Len(block) : block[a] \in 0..(N - 1)
        /\ \A a, b \in 1..Len(block) : block[a] = block[b] => a = b
        /\ pos > 0 => Len(block) = pos /\ \A a \in 1..pos : block[a] = all_indices[a]
        /\ pos = 0 => Len(block) \in {0, N}

C5_Witness ==
    /\ shuffle
    /\ N = 2
    /\ batch_size = 2
    /\ calls = 2
    /\ Len(block) = N
    /\ pos = N

\* C6: a shuffled stream over N >= 1 never ends: the generator function never
\* returns, and whenever the batch under construction holds n indices, a further
\* index of [0,N) is eventually appended to it.
C6_NeverEnds ==
    /\ [](shuffle => stream # "returned" /\ (caller = "got_stop" => error # NoError))
    /\ \A n \in 0..(MaxBatch - 1) :
        (shuffle /\ N >= 1 /\ gen = "filling" /\ Len(batch_indices) = n)
            ~> (Len(batch_indices) = n + 1 /\ batch_indices[n + 1] \in 0..(N - 1))

C6_Witness ==
    /\ shuffle
    /\ N >= 1
    /\ batch_size > N
    /\ calls >= 2
    /\ gen = "dispatched"
    /\ Len(batch_indices) = batch_size

\* C7: in sequential mode the indices handed to successive batches, concatenated,
\* are 0,1,..,N-1,0,1,..; each batch is a dense ascending range; a pass ends after
\* ceil(N/batch_size) calls, having covered [0,N) once, and the next call starts
\* again at index 0.
C7_Sequential ==
    (~shuffle /\ N >= 1) =>
        LET perPass == (N + batch_size - 1) \div batch_size
        IN /\ \A k \in 1..Len(seqlog) : seqlog[k] = (k - 1) % N
           /\ \A k \in 1..(Len(batch_indices) - 1) :
                batch_indices[k + 1] = batch_indices[k] + 1
           /\ gen \in {"dispatched", "yielded"} =>
                /\ batch_indices[1] = ((calls - 1) % perPass) * batch_size
                /\ i >= N => calls % perPass = 0 /\ Len(seqlog) = (calls \div perPass) * N
                /\ batch_indices[1] = 0 => Len(seqlog) = ((calls - 1) \div perPass) * N
                                                       + Len(batch_indices)

C7_Witness ==
    /\ ~shuffle
    /\ N = 2
    /\ seqlog = <<0, 1, 0, 1>>
    /\ Returned

\* C8 as claimed: a dispatched batch eventually returns a batch or raises.
C8_Original ==
    (gen = "dispatched") ~> (caller \in {"got_batch", "got_error"})

\* C9 as claimed: no batch iterator exists over a dataset without samples or
\* without classes; such a dataset is rejected when it is loaded.
C9_Original ==
    gen \notin {"unloaded", "load_error", "loaded"} => N >= 1 /\ num_classes >= 1

\* C11: in shuffled mode the batch of the k-th next() call is made of exactly the
\* stream's draws number (k-1)*batch_size .. k*batch_size - 1 (k counted from 1),
\* in draw order: every index the stream yields during the call is in the batch,
\* once and in place, also across a reshuffle, and the latest elements of the
\* batch are the elements the current permutation has handed out so far.
C11_BatchIsDraws ==
    (shuffle /\ gen \in {"filling", "dispatched", "yielded"}) =>
        /\ batch_indices = drawn
        /\ draws = (calls - 1) * batch_size + Len(batch_indices)
        /\ Len(batch_indices) <= batch_size
        /\ gen \in {"dispatched", "yielded"} =>
            /\ Len(batch_indices) = batch_size
            /\ draws = calls * batch_size
        /\ LET m == Min(pos, Len(batch_indices))
           IN \A a \in 1..m :
                batch_indices[Len(batch_indices) - m + a] = all_indices[pos - m + a]

\* a returned batch that holds the tail of one permutation and the head of the
\* next, with the same index twice
C11_Witness ==
    /\ shuffle
    /\ Returned
    /\ Len(batch_indices) = 2
    /\ batch_indices[1] = batch_indices[2]
    /\ pos < Len(batch_indices)

\* C10: with mixing, every returned label row is r*onehot(y_i) + (1-r)*onehot(y_t)
\* for the class y_i of the requested index, the class y_t # y_i of the partner the
\* image was blended with, and r in [0.5, 1.0]; the row sums to 1.0 and gives y_i at
\* least 0.5.  Without mixing the row is the one-hot vector of y_i.
C10_Labels ==
    Returned =>
        \A k \in 1..Len(y_batch) :
            LET row == y_batch[k]
                y_i == y[batch_indices[k] + 1]
            IN /\ DOMAIN row = 0..(num_classes - 1)
               /\ SumTo(row, num_classes - 1) = RScale
               /\ 2 * row[y_i] >= RScale
               /\ IF data_augmentation
                  THEN \E t \in 0..(N - 1), r \in 0..RScale :
                        /\ X_batch[k].partner = t
                        /\ X_batch[k].r = r
                        /\ y[t + 1] # y_i
                        /\ 2 * r >= RScale
                        /\ \A c \in 0..(num_classes - 1) :
                            row[c] = (IF c = y_i THEN r ELSE 0)
                                   + (IF c = y[t + 1] THEN RScale - r ELSE 0)
                  ELSE \A c \in 0..(num_classes - 1) :
                        row[c] = IF c = y_i THEN RScale ELSE 0

C10_Witness ==
    /\ Returned
    /\ data_augmentation
    /\ \E k \in 1..Len(y_batch) :
        \E c \in 0..(num_classes - 1) : y_batch[k][c] \notin {0, RScale}

====
